---- MODULE Spec2Model ----
(***************************************************************************)
(* Inventory & sales tracker (app.js): the stock and sales ledgers, kept   *)
(* in memory (stockData, salesData) and persisted either in IndexedDB      *)
(* (stores 'stock' keyed by name, 'sales' with an auto-increment key) or,  *)
(* in fallback mode, as one JSON document in localStorage.                 *)
(*                                                                         *)
(* Numbers: qty, cost, sell, sellPrice are small integers.  A date is a    *)
(* pair of its representation ("Date" object or "ISO" string, which is     *)
(* what JSON.stringify makes of a Date) and its instant t, the value of a  *)
(* logical clock.                                                          *)
(***************************************************************************)
EXTENDS Integers, Sequences, FiniteSets, TLC

\* ---------------------------------------------------------------- bounds
MaxStock == 3
MaxClock == 2
MaxKey == 4
MaxPending == 2
MaxFails == 1
MaxOps == 3

Names == {"Cement", "Nails"}
Staff == {"Alice"}
SaleIds == 0 .. MaxKey

\* ------------------------------------------------------------ state
VARIABLES
    isIOS,          \* const isIOS (user agent test)
    opened,         \* the indexedDB.open request has been answered
    db,             \* let db: TRUE once request.onsuccess has set the handle
    fallbackMode,   \* let fallbackMode
    stockData,      \* let stockData: sequence of stock items
    salesData,      \* let salesData: sequence of sale records
    dbStock,        \* object store 'stock' (keyPath name), in key order
    dbSales,        \* object store 'sales' (autoIncrement), in key order
    salesKeyGen,    \* key generator of 'sales': the next key
    lsDoc,          \* localStorage[fallbackKey], parsed
    txq,            \* IndexedDB transactions created and not yet finished
    clock,          \* instants handed out by new Date()
    loading,        \* the #loading overlay is shown
    ops,            \* history: operations recorded so far (at most MaxOps)
    watch,          \* history: the toasts whose refusals are recorded
    fails,          \* storage failures so far (setItem throws, aborted
                    \* transactions): at most MaxFails are injected
    ev,             \* history: the last completed operation
    pev             \* history: the completed operation before ev

vars == <<isIOS, opened, db, fallbackMode, stockData, salesData, dbStock,
          dbSales, salesKeyGen, lsDoc, txq, clock, loading, ops, watch, fails,
          ev, pev>>

\* ------------------------------------------------------ sequence helpers
\* a faulty filter: the items after the one named are dropped with it
SeqFilterOut_DropsRest(s, n) ==
    IF \E i \in 1 .. Len(s) : s[i].name = n
    THEN SubSeq(s, 1, (CHOOSE i \in 1 .. Len(s) :
                          /\ s[i].name = n
                          /\ \A k \in 1 .. (i - 1) : s[k].name # n) - 1)
    ELSE s

RECURSIVE SeqFilterOut(_, _)
\* stockData.filter(item => item.name !== n)
SeqFilterOut(s, n) ==
    IF s = <<>> THEN <<>>
    ELSE IF Head(s).name = n THEN SeqFilterOut(Tail(s), n)
         ELSE <<Head(s)>> \o SeqFilterOut(Tail(s), n)

\* salesData.splice(i, 1), i 1-based
RemoveAt(s, i) == [k \in 1 .. (Len(s) - 1) |-> IF k < i THEN s[k] ELSE s[k + 1]]

\* Array.prototype.findIndex on item names, 1-based, 0 for -1
FindIndex(s, n) ==
    IF \E i \in 1 .. Len(s) : s[i].name = n
    THEN CHOOSE i \in 1 .. Len(s) :
            /\ s[i].name = n
            /\ \A j \in 1 .. (i - 1) : s[j].name # n
    ELSE 0

Has(s, n) == FindIndex(s, n) # 0
\* the quantity of item n in a stock list, -1 when there is no such item
QtyOf(s, n) == IF Has(s, n) THEN s[FindIndex(s, n)].qty ELSE -1

\* ------------------------------------------------------------ records
StockItem(n, q, c, s) == [name |-> n, qty |-> q, cost |-> c, sell |-> s]

\* const saleRecord = { staff, name, qty, sellPrice, cost, date, revenue, profit }
\* a faulty record: the profit taken on the item's list price
SaleRecord_ListPriceProfit(st, item, q, p, t) ==
    [staff |-> st, name |-> item.name, qty |-> q, sellPrice |-> p,
     cost |-> item.cost, date |-> [rep |-> "Date", t |-> t],
     revenue |-> q * p, profit |-> q * (item.sell - item.cost)]

SaleRecord(st, item, q, p, t) ==
    [staff |-> st, name |-> item.name, qty |-> q, sellPrice |-> p,
     cost |-> item.cost, date |-> [rep |-> "Date", t |-> t],
     revenue |-> q * p, profit |-> q * (p - item.cost)]

\* a parsed backup document; tag names it ("none": no document)
NoDoc == [tag |-> "none", stockKind |-> "missing", stock |-> <<>>,
          hasSales |-> FALSE, sales |-> <<>>]

\* History of completed operations.  An operation completes when its handler
\* returns without leaving a transaction behind, or when its transaction
\* finishes.  out: "sync" (handler), "complete", "error" (tx.onerror ran),
\* "abort" (the transaction aborted without an error event).  ok: the
\* operation was applied to the ledgers.
\* pre: the item's quantity as the operation read it, -1 if there was no item.
NoEvent ==
    [op |-> "none", ok |-> FALSE, name |-> "", id |-> 0, qty |-> 0, cost |-> 0,
     sell |-> 0, pre |-> -1, key |-> 0, t |-> 0, toasts |-> <<>>,
     out |-> "sync", doc |-> NoDoc]

\* an operation that was refused or cancelled: its kind and its toasts
Refused(op, toasts) ==
    [NoEvent EXCEPT !.op = op, !.toasts = toasts]

\* an operation that was applied
Applied(op, name, toasts, out) ==
    [NoEvent EXCEPT !.op = op, !.ok = TRUE, !.name = name, !.toasts = toasts,
                    !.out = out]

\* what is remembered of the operation before the last one
Slim(e) ==
    IF e.ok /\ e.op \in {"addShipment", "addSale", "deleteSale"}
    THEN [NoEvent EXCEPT !.op = e.op, !.ok = TRUE, !.name = e.name,
                         !.id = e.id, !.qty = e.qty, !.pre = e.pre,
                         !.key = e.key]
    ELSE NoEvent

Completed(e) == ev' = e /\ pev' = Slim(ev)
NotCompleted == UNCHANGED <<ev, pev>>
\* an operation is accepted
Accept == ops < MaxOps /\ ops' = ops + 1
\* a refusal enters the history when its toast is one of those watched
Refuse(e) ==
    IF e.toasts # <<>> /\ e.toasts[1] \in watch /\ ops < MaxOps
    THEN Completed(e) /\ ops' = ops + 1
    ELSE NotCompleted /\ ops' = ops

\* -------------------------------------------------------------- Init
\* the state when the page has loaded and indexedDB.open is pending
Start ==
    /\ isIOS \in BOOLEAN
    /\ opened = FALSE
    /\ db = FALSE
    /\ fallbackMode = FALSE
    /\ stockData = <<>>
    /\ salesData = <<>>
    /\ dbStock = <<>>
    /\ dbSales = <<>>
    /\ salesKeyGen = 1
    /\ lsDoc = [saved |-> FALSE, stock |-> <<>>, sales |-> <<>>]
    /\ txq = <<>>
    /\ clock = 0
    /\ loading = FALSE
    /\ fails = 0
    /\ ops = 0
    /\ ev = NoEvent
    /\ pev = NoEvent

Init == Start /\ watch = {}

\* ------------------------------------------------------- form parsing
\* parseInt / parseFloat over the form values the model enters; the result
\* is the number, or NaN.  (Only integral inputs are entered, on which the
\* two functions agree.)
IsNumeric(str) == str \in {"-1", "0", "1", "2", "3"}
NumberOf(str) ==
    CASE str = "-1" -> -1
      [] str = "0" -> 0
      [] str = "1" -> 1
      [] str = "2" -> 2
      [] str = "3" -> 3
      [] OTHER -> 0
parseInt(str) == [nan |-> ~IsNumeric(str), v |-> NumberOf(str)]
parseFloat(str) == [nan |-> ~IsNumeric(str), v |-> NumberOf(str)]
isNaN(x) == x.nan

\* ---------------------------------------------------- JSON conversion
\* JSON.stringify followed by JSON.parse: numbers and strings come back as
\* they were, a Date comes back as its ISO string.
JSONSale(rec) == [rec EXCEPT !.date = [rep |-> "ISO", t |-> rec.date.t]]
JSONSales(s) == [i \in 1 .. Len(s) |-> JSONSale(s[i])]
\* new Date(sale.date): the instant, whichever the representation
NewDate(d) == d.t

\* ------------------------------------------------- fallback persistence
\* saveFallbackData: localStorage.setItem of the combined document; a throw
\* of setItem (quota) is caught and logged only, and leaves the old document
SavedDoc(stock, sales) ==
    [saved |-> TRUE, stock |-> stock, sales |-> JSONSales(sales)]

SaveFallbackData(stock, sales) ==
    \/ /\ lsDoc' = SavedDoc(stock, sales)
       /\ fails' = fails
    \/ /\ fails < MaxFails
       /\ lsDoc' = lsDoc
       /\ fails' = fails + 1

\* ------------------------------------------------------ IndexedDB stores
KeyOrder(n) == CASE n = "" -> 0 [] n = "Cement" -> 1 [] n = "Nails" -> 2 [] OTHER -> 3

\* store.get(name): the index of the record, 0 for undefined
StoreHas(store, n) == Has(store, n)
StoreGet(store, n) == store[FindIndex(store, n)]

\* store.put(item) into the name-keyed store: overwrite, or insert in key order
StorePut(store, item) ==
    IF Has(store, item.name)
    THEN [store EXCEPT ![FindIndex(store, item.name)] = item]
    ELSE LET below == {i \in 1 .. Len(store) :
                          KeyOrder(store[i].name) < KeyOrder(item.name)}
             k == Cardinality(below)
         IN  SubSeq(store, 1, k) \o <<item>> \o SubSeq(store, k + 1, Len(store))

StoreDelete(store, n) == SeqFilterOut(store, n)

\* the records of 'sales' as getAll() returns them (values, in key order)
SalesValues(store) == [i \in 1 .. Len(store) |-> store[i].value]
SalesKeyIndex(store, k) ==
    IF \E i \in 1 .. Len(store) : store[i].key = k
    THEN CHOOSE i \in 1 .. Len(store) : store[i].key = k
    ELSE 0

\* scopes and modes of the transactions the handlers create
Scope(t) ==
    CASE t.kind = "loadStock" -> {"stock"}
      [] t.kind = "loadSales" -> {"sales"}
      [] t.kind = "addShipment" -> {"stock"}
      [] t.kind = "deleteItem" -> {"stock"}
      [] t.kind = "importCSVData" -> {"stock"}
      [] OTHER -> {"stock", "sales"}
ReadOnly(t) == t.kind \in {"loadStock", "loadSales"}
\* a transaction starts when no live transaction created before it has an
\* overlapping scope, unless both are read-only
Runnable(i) ==
    \A j \in 1 .. (i - 1) :
        \/ Scope(txq[j]) \cap Scope(txq[i]) = {}
        \/ ReadOnly(txq[j]) /\ ReadOnly(txq[i])

\* ---------------------------------------------------------- inputs
\* the forms the model submits: <<item, qty, cost, sell>>
ShipmentForms ==
    {<<"Cement", "1", "1", "2">>, <<"Cement", "1", "2", "3">>,
     <<"Nails", "1", "2", "3">>}
    \cup {<<"", "1", "1", "2">>, <<"Cement", "0", "1", "2">>,
          <<"Cement", "abc", "1", "2">>, <<"Cement", "1", "0", "2">>,
          <<"Cement", "1", "1", "-1">>}
\* <<item, qty, price>>
SaleForms ==
    {<<"Cement", "1", "3">>, <<"Cement", "2", "3">>, <<"Nails", "1", "3">>}
    \cup {<<"", "1", "3">>, <<"Cement", "0", "3">>, <<"Cement", "abc", "3">>,
          <<"Cement", "1", "0">>, <<"Cement", "1", "abc">>}

\* ------------------------------------------------------ initDatabase
\* request.onsuccess
OpenSuccess ==
    /\ ~opened
    /\ opened' = TRUE
    /\ db' = TRUE
    /\ txq' = txq \o <<[kind |-> "loadStock"], [kind |-> "loadSales"]>>
    /\ loading' = FALSE
    /\ UNCHANGED <<isIOS, fallbackMode, stockData, salesData, dbStock, dbSales,
                   salesKeyGen, lsDoc, clock, ev, pev, fails, watch, ops>>

\* initFallbackStorage
InitFallbackStock == IF lsDoc.saved THEN lsDoc.stock ELSE <<>>
InitFallbackSales == IF lsDoc.saved THEN lsDoc.sales ELSE <<>>

\* a faulty handler: the failure is also taken after the handle was set
OpenError_AfterOpen ==
    /\ isIOS
    /\ opened' = TRUE
    /\ fallbackMode' = TRUE
    /\ stockData' = InitFallbackStock
    /\ salesData' = InitFallbackSales
    /\ UNCHANGED <<isIOS, db, dbStock, dbSales, salesKeyGen, lsDoc, txq, clock,
                   loading, ev, pev, fails, watch, ops>>

\* request.onerror, or indexedDB.open throwing: fallback on iOS only
OpenError ==
    /\ ~opened
    /\ opened' = TRUE
    /\ IF isIOS
       THEN /\ fallbackMode' = TRUE
            /\ stockData' = InitFallbackStock
            /\ salesData' = InitFallbackSales
       ELSE UNCHANGED <<fallbackMode, stockData, salesData>>
    /\ UNCHANGED <<isIOS, db, dbStock, dbSales, salesKeyGen, lsDoc, txq, clock,
                   loading, ev, pev, fails, watch, ops>>

\* ------------------------------------------------------- addShipment
\* fallback mode: merge into stockData
Upsert(stock, name, qty, cost, sell) ==
    LET existingIndex == FindIndex(stock, name)
    IN  IF existingIndex > 0
        THEN [stock EXCEPT ![existingIndex] =
                 [@ EXCEPT !.qty = @ + qty, !.cost = cost, !.sell = sell]]
        ELSE Append(stock, StockItem(name, qty, cost, sell))

\* a faulty merge: the shipment is put as it is, over the stored item
DbUpsert_Overwrite(store, name, qty, cost, sell) ==
    StorePut(store, StockItem(name, qty, cost, sell))

\* IndexedDB mode: getReq.onsuccess, inside the transaction
DbUpsert(store, name, qty, cost, sell) ==
    IF StoreHas(store, name)
    THEN StorePut(store, [StoreGet(store, name) EXCEPT
                             !.qty = @ + qty, !.cost = cost, !.sell = sell])
    ELSE StorePut(store, StockItem(name, qty, cost, sell))

\* the validation of the shipment form: the toast of the first failing test
ShipmentError(name, qty, cost, sell) ==
    IF name = "" THEN "Please enter item name"
    ELSE IF isNaN(qty) \/ qty.v <= 0 THEN "Please enter valid quantity"
    ELSE IF isNaN(cost) \/ cost.v <= 0 THEN "Please enter valid cost price"
    ELSE IF isNaN(sell) \/ sell.v <= 0 THEN "Please enter valid selling price"
    ELSE ""

Max(a, b) == IF a > b THEN a ELSE b

addShipment(form, confirmed) ==
    LET name == form[1]
        qty == parseInt(form[2])
        cost == parseFloat(form[3])
        sell == parseFloat(form[4])
        err == ShipmentError(name, qty, cost, sell)
        e == [Applied("addShipment", name, <<>>, "sync") EXCEPT
                 !.qty = qty.v, !.cost = cost.v, !.sell = sell.v,
                 !.pre = QtyOf(stockData, name)]
    IN  IF err # ""
        THEN /\ Refuse(Refused("addShipment", <<err>>))
             /\ UNCHANGED <<isIOS, opened, db, fallbackMode, stockData, salesData,
                            dbStock, dbSales, salesKeyGen, lsDoc, txq, clock,
                            loading, fails, watch>>
        ELSE IF sell.v < cost.v /\ ~confirmed
        THEN /\ Refuse(Refused("addShipment", <<>>))
             /\ UNCHANGED <<isIOS, opened, db, fallbackMode, stockData, salesData,
                            dbStock, dbSales, salesKeyGen, lsDoc, txq, clock,
                            loading, fails, watch>>
        ELSE IF fallbackMode
        THEN /\ Max(QtyOf(stockData, name), 0) + qty.v <= MaxStock
             /\ stockData' = Upsert(stockData, name, qty.v, cost.v, sell.v)
             /\ SaveFallbackData(stockData', salesData)
             /\ loading' = FALSE
             /\ Completed([e EXCEPT !.toasts = <<"Shipment added successfully!">>])
             /\ UNCHANGED <<isIOS, opened, db, fallbackMode, salesData, dbStock,
                            dbSales, salesKeyGen, txq, clock, watch>>
             /\ Accept
        ELSE IF ~db
        THEN \* db.transaction on undefined throws; caught
             /\ loading' = FALSE
             /\ Refuse(Refused("addShipment", <<"Error adding shipment">>))
             /\ UNCHANGED <<isIOS, opened, db, fallbackMode, stockData, salesData,
                            dbStock, dbSales, salesKeyGen, lsDoc, txq, clock, fails, watch>>
        ELSE /\ Len(txq) < MaxPending
             /\ Max(QtyOf(dbStock, name), 0) + qty.v <= MaxStock
             /\ txq' = Append(txq, [kind |-> "addShipment", name |-> name,
                                    qty |-> qty.v, cost |-> cost.v,
                                    sell |-> sell.v])
             /\ loading' = TRUE
             /\ NotCompleted
             /\ UNCHANGED <<isIOS, opened, db, fallbackMode, stockData, salesData,
                            dbStock, dbSales, salesKeyGen, lsDoc, clock, fails, watch>>
             /\ Accept

\* -------------------------------------------------------- deleteItem
deleteItem(itemName, confirmed) ==
    LET e == [Applied("deleteItem", itemName, <<>>, "sync") EXCEPT
                 !.pre = QtyOf(stockData, itemName)]
    IN  IF ~confirmed
        THEN /\ Refuse(Refused("deleteItem", <<>>))
             /\ UNCHANGED <<isIOS, opened, db, fallbackMode, stockData, salesData,
                            dbStock, dbSales, salesKeyGen, lsDoc, txq, clock,
                            loading, fails, watch>>
        ELSE IF fallbackMode
        THEN /\ stockData' = SeqFilterOut(stockData, itemName)
             /\ SaveFallbackData(stockData', salesData)
             /\ loading' = FALSE
             /\ Completed([e EXCEPT !.toasts = <<"Item deleted">>])
             /\ UNCHANGED <<isIOS, opened, db, fallbackMode, salesData, dbStock,
                            dbSales, salesKeyGen, txq, clock, watch>>
             /\ Accept
        ELSE IF ~db
        THEN /\ loading' = FALSE
             /\ Refuse(Refused("deleteItem", <<"Error deleting item">>))
             /\ UNCHANGED <<isIOS, opened, db, fallbackMode, stockData, salesData,
                            dbStock, dbSales, salesKeyGen, lsDoc, txq, clock, fails, watch>>
        ELSE /\ Len(txq) < MaxPending
             /\ txq' = Append(txq, [kind |-> "deleteItem", name |-> itemName])
             /\ loading' = TRUE
             /\ NotCompleted
             /\ UNCHANGED <<isIOS, opened, db, fallbackMode, stockData, salesData,
                            dbStock, dbSales, salesKeyGen, lsDoc, clock, fails, watch>>
             /\ Accept

\* ----------------------------------------------------------- addSale
\* a faulty validation: the quantity in stock is not compared
SaleError_NoStockTest(stock, name, qty, sellPrice) ==
    IF name = "" THEN "Please select an item"
    ELSE IF isNaN(qty) \/ qty.v <= 0 THEN "Please enter valid quantity"
    ELSE IF isNaN(sellPrice) \/ sellPrice.v <= 0
         THEN "Please enter valid selling price"
    ELSE IF ~Has(stock, name) THEN "Item not found in stock"
    ELSE ""

\* a faulty validation: the selling price is not tested
SaleError_NoPriceTest(stock, name, qty, sellPrice) ==
    IF name = "" THEN "Please select an item"
    ELSE IF isNaN(qty) \/ qty.v <= 0 THEN "Please enter valid quantity"
    ELSE IF ~Has(stock, name) THEN "Item not found in stock"
    ELSE IF stock[FindIndex(stock, name)].qty < qty.v
         THEN "Only N available in stock"
    ELSE ""

\* the validation of the sale form against stockData: the first failing test
SaleError(stock, name, qty, sellPrice) ==
    IF name = "" THEN "Please select an item"
    ELSE IF isNaN(qty) \/ qty.v <= 0 THEN "Please enter valid quantity"
    ELSE IF isNaN(sellPrice) \/ sellPrice.v <= 0
         THEN "Please enter valid selling price"
    ELSE IF ~Has(stock, name) THEN "Item not found in stock"
    ELSE IF stock[FindIndex(stock, name)].qty < qty.v
         THEN "Only N available in stock"
    ELSE ""

\* stockData[stockIndex].qty -= qty  /  item.qty -= qty
TakeFromStock(stock, name, qty) ==
    LET stockIndex == FindIndex(stock, name)
    IN  IF stockIndex > 0
        THEN [stock EXCEPT ![stockIndex] = [@ EXCEPT !.qty = @ - qty]]
        ELSE stock

addSale(staff, form) ==
    LET name == form[1]
        qty == parseInt(form[2])
        sellPrice == parseFloat(form[3])
        err == SaleError(stockData, name, qty, sellPrice)
        e == [Applied("addSale", name, <<>>, "sync") EXCEPT
                 !.qty = qty.v, !.sell = sellPrice.v,
                 !.pre = QtyOf(stockData, name)]
    IN  IF err # ""
        THEN /\ Refuse(Refused("addSale", <<err>>))
             /\ UNCHANGED <<isIOS, opened, db, fallbackMode, stockData, salesData,
                            dbStock, dbSales, salesKeyGen, lsDoc, txq, clock,
                            loading, fails, watch>>
        ELSE LET item == stockData[FindIndex(stockData, name)]
                 saleRecord == SaleRecord(staff, item, qty.v, sellPrice.v, clock + 1)
             IN  /\ clock < MaxClock
                 /\ clock' = clock + 1
                 /\ stockData' = TakeFromStock(stockData, name, qty.v)
                 /\ IF fallbackMode
                    THEN /\ salesData' = Append(salesData, saleRecord)
                         /\ SaveFallbackData(stockData', salesData')
                         /\ loading' = FALSE
                         /\ Completed([e EXCEPT !.toasts = <<"Sale recorded!">>,
                                                !.key = Len(salesData),
                                                !.t = clock + 1])
                         /\ UNCHANGED txq
                    ELSE /\ Len(txq) < MaxPending
                         /\ salesKeyGen <= MaxKey
                         /\ txq' = Append(txq,
                                [kind |-> "addSale",
                                 item |-> [item EXCEPT !.qty = @ - qty.v],
                                 sale |-> saleRecord])
                         /\ loading' = TRUE
                         /\ NotCompleted
                         /\ UNCHANGED <<salesData, lsDoc, fails>>
                 /\ UNCHANGED <<isIOS, opened, db, fallbackMode, dbStock, dbSales,
                                salesKeyGen, watch>>
                 /\ Accept

\* -------------------------------------------------------- deleteSale
\* a faulty undo: -= for += on the in-memory item
GiveBack_Takes(stock, sale) ==
    LET stockIndex == FindIndex(stock, sale.name)
    IN  IF stockIndex > 0
        THEN [stock EXCEPT ![stockIndex] = [@ EXCEPT !.qty = @ - sale.qty]]
        ELSE stock

\* a faulty restore: an item that is gone is created anew
GiveBack_Creates(stock, sale) ==
    LET stockIndex == FindIndex(stock, sale.name)
    IN  IF stockIndex > 0
        THEN [stock EXCEPT ![stockIndex] = [@ EXCEPT !.qty = @ + sale.qty]]
        ELSE Append(stock, StockItem(sale.name, sale.qty, sale.cost,
                                     sale.sellPrice))

\* stockData[stockIndex].qty += sale.qty, when the item is there
GiveBack(stock, sale) ==
    LET stockIndex == FindIndex(stock, sale.name)
    IN  IF stockIndex > 0
        THEN [stock EXCEPT ![stockIndex] = [@ EXCEPT !.qty = @ + sale.qty]]
        ELSE stock

\* a faulty lookup: the first record, whatever the identifier
FindSaleIndex_First(sales, saleId) == IF sales # <<>> THEN 1 ELSE 0

\* a faulty lookup: the identifier counted from the newest record
FindSaleIndex_FromEnd(sales, saleId) ==
    IF saleId >= 0 /\ saleId < Len(sales) THEN Len(sales) - saleId ELSE 0

\* salesData.findIndex((s, i) => i === saleId), 1-based, 0 for -1
FindSaleIndex(sales, saleId) ==
    IF saleId >= 0 /\ saleId < Len(sales) THEN saleId + 1 ELSE 0

deleteSale(saleId, confirmed) ==
    LET e == [Applied("deleteSale", "", <<>>, "sync") EXCEPT !.id = saleId]
    IN  IF ~confirmed
        THEN /\ Refuse(Refused("deleteSale", <<>>))
             /\ UNCHANGED <<isIOS, opened, db, fallbackMode, stockData, salesData,
                            dbStock, dbSales, salesKeyGen, lsDoc, txq, clock,
                            loading, fails, watch>>
        ELSE IF fallbackMode
        THEN LET saleIndex == FindSaleIndex(salesData, saleId)
             IN  IF saleIndex > 0
                 THEN LET sale == salesData[saleIndex]
                      IN  /\ stockData' = GiveBack(stockData, sale)
                          /\ salesData' = RemoveAt(salesData, saleIndex)
                          /\ SaveFallbackData(stockData', salesData')
                          /\ loading' = FALSE
                          /\ Completed([e EXCEPT
                                 !.name = sale.name, !.qty = sale.qty,
                                 !.t = NewDate(sale.date),
                                 !.pre = QtyOf(stockData, sale.name),
                                 !.toasts = <<"Sale undone!">>])
                          /\ UNCHANGED <<isIOS, opened, db, fallbackMode, dbStock,
                                         dbSales, salesKeyGen, txq, clock, watch>>
                          /\ Accept
                 ELSE /\ loading' = FALSE
                      /\ Refuse(Refused("deleteSale", <<"Sale not found">>))
                      /\ UNCHANGED <<isIOS, opened, db, fallbackMode, stockData,
                                     salesData, dbStock, dbSales, salesKeyGen,
                                     lsDoc, txq, clock, fails, watch>>
        ELSE IF ~db
        THEN /\ loading' = FALSE
             /\ Refuse(Refused("deleteSale", <<"Error undoing sale">>))
             /\ UNCHANGED <<isIOS, opened, db, fallbackMode, stockData, salesData,
                            dbStock, dbSales, salesKeyGen, lsDoc, txq, clock, fails, watch>>
        ELSE /\ Len(txq) < MaxPending
             /\ txq' = Append(txq, [kind |-> "deleteSale", id |-> saleId])
             /\ loading' = TRUE
             /\ NotCompleted
             /\ UNCHANGED <<isIOS, opened, db, fallbackMode, stockData, salesData,
                            dbStock, dbSales, salesKeyGen, lsDoc, clock, fails, watch>>
             /\ Accept

\* updateSalesTable: the saleId given to the Undo button of the row at index
\* (0-based) of recentSales = salesData.slice(-50).reverse().  The records
\* that getAll() returns carry neither id nor key (the store has no keyPath),
\* so sale.id || sale.key || ... is its last operand.
SaleIdShown(sales, index) ==
    IF fallbackMode THEN Len(sales) - 1 - index ELSE Len(sales) - index

\* ----------------------------------------------------- importCSVData
\* the data rows the model puts in a file whose header is Item,Qty,Cost,Sell
MaxRows == 2
CsvFiles ==
    {f \in {<<>>,
            <<<<"Cement", "1", "1", "2">>>>,
            <<<<"Cement", "1", "1", "2">>, <<"Cement", "1", "2", "3">>>>,
            <<<<"Nails", "1", "1">>, <<"Nails", "1", "2", "0">>>>} :
        Len(f) <= MaxRows}

\* one data row: values.length, the four cells, the validity test
CsvRowValid(values) ==
    /\ Len(values) >= 4
    /\ values[1] # ""
    /\ ~isNaN(parseInt(values[2]))
    /\ ~isNaN(parseFloat(values[3]))
    /\ ~isNaN(parseFloat(values[4]))
    /\ parseInt(values[2]).v > 0
    /\ parseFloat(values[3]).v > 0

CsvRowItem(values) ==
    StockItem(values[1], parseInt(values[2]).v, parseFloat(values[3]).v,
              parseFloat(values[4]).v)

RECURSIVE CsvImportData_StopsAtInvalid(_)
\* a faulty loop: the first invalid row ends the reading of the file
CsvImportData_StopsAtInvalid(rows) ==
    IF rows = <<>> \/ ~CsvRowValid(Head(rows)) THEN <<>>
    ELSE <<CsvRowItem(Head(rows))>> \o CsvImportData_StopsAtInvalid(Tail(rows))

RECURSIVE CsvImportData(_)
\* importData: the valid rows, in file order
CsvImportData(rows) ==
    IF rows = <<>> THEN <<>>
    ELSE (IF CsvRowValid(Head(rows)) THEN <<CsvRowItem(Head(rows))>> ELSE <<>>)
         \o CsvImportData(Tail(rows))

RECURSIVE CsvMergeFallback(_, _)
\* importData.forEach over stockData
CsvMergeFallback(stock, items) ==
    IF items = <<>> THEN stock
    ELSE CsvMergeFallback(
             Upsert(stock, Head(items).name, Head(items).qty, Head(items).cost,
                    Head(items).sell),
             Tail(items))

RECURSIVE CsvMergeDb(_, _, _)
\* importData.forEach in one transaction: every store.get is requested before
\* the first onsuccess runs, so each row reads the store as it was (orig) and
\* the puts follow in row order
CsvMergeDb(store, orig, items) ==
    IF items = <<>> THEN store
    ELSE LET item == Head(items)
             put == IF StoreHas(orig, item.name)
                    THEN [StoreGet(orig, item.name) EXCEPT
                             !.qty = @ + item.qty, !.cost = item.cost,
                             !.sell = item.sell]
                    ELSE item
         IN  CsvMergeDb(StorePut(store, put), orig, Tail(items))

MaxQtyIn(stock) ==
    IF stock = <<>> THEN 0
    ELSE CHOOSE m \in {stock[i].qty : i \in 1 .. Len(stock)} :
            \A i \in 1 .. Len(stock) : stock[i].qty <= m

importCSVData(rows) ==
    LET importData == CsvImportData(rows)
        imported == Len(importData)
        skipped == Len(rows) - imported
        e == [Applied("importCSVData", "", <<>>, "sync") EXCEPT
                 !.qty = imported, !.key = skipped]
    IN  IF Len(rows) < 1
        THEN /\ loading' = FALSE
             /\ Refuse(Refused("importCSVData",
                    <<"Import error: CSV file is empty or invalid">>))
             /\ UNCHANGED <<isIOS, opened, db, fallbackMode, stockData, salesData,
                            dbStock, dbSales, salesKeyGen, lsDoc, txq, clock, fails, watch>>
        ELSE IF imported = 0
        THEN /\ loading' = FALSE
             /\ Refuse(Refused("importCSVData",
                    <<"Import error: No valid data found in CSV">>))
             /\ UNCHANGED <<isIOS, opened, db, fallbackMode, stockData, salesData,
                            dbStock, dbSales, salesKeyGen, lsDoc, txq, clock, fails, watch>>
        ELSE IF fallbackMode
        THEN /\ MaxQtyIn(CsvMergeFallback(stockData, importData)) <= MaxStock
             /\ stockData' = CsvMergeFallback(stockData, importData)
             /\ SaveFallbackData(stockData', salesData)
             /\ loading' = FALSE
             /\ Completed([e EXCEPT !.toasts = <<"Imported N items (M skipped)">>])
             /\ UNCHANGED <<isIOS, opened, db, fallbackMode, salesData, dbStock,
                            dbSales, salesKeyGen, txq, clock, watch>>
             /\ Accept
        ELSE IF ~db
        THEN /\ loading' = FALSE
             /\ Refuse(Refused("importCSVData", <<"Import error: TypeError">>))
             /\ UNCHANGED <<isIOS, opened, db, fallbackMode, stockData, salesData,
                            dbStock, dbSales, salesKeyGen, lsDoc, txq, clock, fails, watch>>
        ELSE /\ Len(txq) < MaxPending
             /\ MaxQtyIn(CsvMergeFallback(dbStock, importData)) <= MaxStock
             /\ txq' = Append(txq, [kind |-> "importCSVData",
                                    importData |-> importData,
                                    imported |-> imported, skipped |-> skipped])
             /\ loading' = FALSE
             /\ NotCompleted
             /\ UNCHANGED <<isIOS, opened, db, fallbackMode, stockData, salesData,
                            dbStock, dbSales, salesKeyGen, lsDoc, clock, fails, watch>>
             /\ Accept

\* ---------------------------------------- backupData / importJSONData
\* a faulty export: the sales are left out of the document
backupData_NoSales ==
    [tag |-> "backup", stockKind |-> "array", stock |-> stockData,
     hasSales |-> TRUE, sales |-> <<>>]

\* backupData: the document written by JSON.stringify(backup), as JSON.parse
\* gives it back (exportDate, exchangeRate, version are not read by import)
backupData ==
    [tag |-> "backup", stockKind |-> "array", stock |-> stockData,
     hasSales |-> TRUE, sales |-> JSONSales(salesData)]

OldSale(name) ==
    [staff |-> "Alice", name |-> name, qty |-> 1, sellPrice |-> 3,
     cost |-> 2, date |-> [rep |-> "ISO", t |-> 0], revenue |-> 3,
     profit |-> 1]

\* the name of an item that has no name property: no valid key for the
\* store, whose keyPath is name
Undefined == "undefined"

\* other documents offered to the import: stock only; stock (not in key
\* order) and sales; no stock field; a stock field that is not an array; a
\* stock list whose second item has no name; a stock list with two items of
\* one name
FileDocs ==
    {[tag |-> "stockOnly", stockKind |-> "array",
      stock |-> <<StockItem("Cement", 2, 1, 2)>>,
      hasSales |-> FALSE, sales |-> <<>>],
     [tag |-> "full", stockKind |-> "array",
      stock |-> <<StockItem("Nails", 1, 2, 3), StockItem("Cement", 1, 1, 2)>>,
      hasSales |-> TRUE, sales |-> <<OldSale("Nails"), OldSale("Cement")>>],
     [tag |-> "noStock", stockKind |-> "missing", stock |-> <<>>,
      hasSales |-> TRUE, sales |-> <<OldSale("Nails")>>],
     [tag |-> "stockNotArray", stockKind |-> "object",
      stock |-> <<StockItem("Cement", 2, 1, 2)>>,
      hasSales |-> FALSE, sales |-> <<>>],
     [tag |-> "namelessItem", stockKind |-> "array",
      stock |-> <<StockItem("Nails", 2, 2, 3), StockItem(Undefined, 1, 1, 2)>>,
      hasSales |-> TRUE, sales |-> <<OldSale("Nails")>>],
     [tag |-> "twoOfOneName", stockKind |-> "array",
      stock |-> <<StockItem("Cement", 1, 1, 2), StockItem("Cement", 2, 2, 3)>>,
      hasSales |-> FALSE, sales |-> <<>>]}

\* a faulty test: !data.stock alone
InvalidBackup_MissingOnly(data) == data.stockKind = "missing"

\* !data.stock || !Array.isArray(data.stock)
InvalidBackup(data) == data.stockKind = "missing" \/ data.stockKind # "array"

\* a faulty default: data.sales || salesData
SalesOf_KeepsOld(data) == IF data.hasSales THEN data.sales ELSE salesData

\* data.sales || []
SalesOf(data) == IF data.hasSales THEN data.sales ELSE <<>>

\* stockStore.put(item) throws DataError, synchronously, for an item whose
\* key path yields no valid key: the index of the first such item, 0 if none
ThrowsAt(items) ==
    IF \E i \in 1 .. Len(items) : items[i].name = Undefined
    THEN CHOOSE i \in 1 .. Len(items) :
            /\ items[i].name = Undefined
            /\ \A j \in 1 .. (i - 1) : items[j].name # Undefined
    ELSE 0

RECURSIVE PutAll(_, _)
\* data.stock.forEach(item => stockStore.put(item))
PutAll(store, items) ==
    IF items = <<>> THEN store
    ELSE PutAll(StorePut(store, Head(items)), Tail(items))

\* data.sales.forEach(sale => salesStore.add(sale)): keys from the generator
AddAll(store, sales, gen) ==
    store \o [i \in 1 .. Len(sales) |-> [key |-> gen + i - 1, value |-> sales[i]]]

importJSONData(data) ==
    LET e == [Applied("importJSONData", "", <<>>, "sync") EXCEPT !.doc = data]
    IN  IF InvalidBackup(data)
        THEN /\ loading' = FALSE
             /\ Refuse([Refused("importJSONData",
                    <<"Invalid JSON: Missing stock data">>) EXCEPT !.doc = data])
             /\ UNCHANGED <<isIOS, opened, db, fallbackMode, stockData, salesData,
                            dbStock, dbSales, salesKeyGen, lsDoc, txq, clock, fails, watch>>
        ELSE IF fallbackMode
        THEN /\ stockData' = data.stock
             /\ salesData' = SalesOf(data)
             /\ SaveFallbackData(stockData', salesData')
             /\ loading' = FALSE
             /\ Completed([e EXCEPT !.toasts = <<"Data imported successfully!">>])
             /\ UNCHANGED <<isIOS, opened, db, fallbackMode, dbStock, dbSales,
                            salesKeyGen, txq, clock, watch>>
             /\ Accept
        ELSE IF ~db
        THEN /\ loading' = FALSE
             /\ Refuse(Refused("importJSONData", <<"Import failed: TypeError">>))
             /\ UNCHANGED <<isIOS, opened, db, fallbackMode, stockData, salesData,
                            dbStock, dbSales, salesKeyGen, lsDoc, txq, clock, fails, watch>>
        ELSE \* a put that throws leaves the forEach for the catch: the
             \* transaction, with the requests made so far and no handlers,
             \* is not aborted
             /\ Len(txq) < MaxPending
             /\ salesKeyGen + Len(SalesOf(data)) - 1 <= MaxKey
             /\ txq' = Append(txq, [kind |-> "importJSONData", doc |-> data,
                                    thrown |-> ThrowsAt(data.stock) # 0])
             /\ loading' = FALSE
             /\ NotCompleted
             /\ UNCHANGED <<isIOS, opened, db, fallbackMode, stockData, salesData,
                            dbStock, dbSales, salesKeyGen, lsDoc, clock, fails, watch>>
             /\ Accept

\* ------------------------------------------- IndexedDB transactions
\* how a read-write transaction ends: "complete"; "error": a request failed,
\* tx.onerror runs and the transaction aborts; "abort": it aborts without an
\* error event (no handler of the page runs)
TxOutcomes == {"complete", "error", "abort"}

Loads(kinds) == [i \in 1 .. Len(kinds) |-> [kind |-> kinds[i]]]

\* loadStock: req.onsuccess
LoadStockDone(i) ==
    /\ txq[i].kind = "loadStock"
    /\ Runnable(i)
    /\ stockData' = dbStock
    /\ txq' = RemoveAt(txq, i)
    /\ UNCHANGED <<isIOS, opened, db, fallbackMode, salesData, dbStock, dbSales,
                   salesKeyGen, lsDoc, clock, loading, ev, pev, fails, watch, ops>>

\* loadSales: req.onsuccess
LoadSalesDone(i) ==
    /\ txq[i].kind = "loadSales"
    /\ Runnable(i)
    /\ salesData' = SalesValues(dbSales)
    /\ txq' = RemoveAt(txq, i)
    /\ UNCHANGED <<isIOS, opened, db, fallbackMode, stockData, dbStock, dbSales,
                   salesKeyGen, lsDoc, clock, loading, ev, pev, fails, watch, ops>>

\* the end of a read-write transaction that did not complete: nothing of it
\* is stored; tx.onerror, if it runs, hides the overlay and shows errToast
TxFailed(i, outcome, e, errToast, hides) ==
    /\ fails < MaxFails
    /\ fails' = fails + 1
    /\ txq' = RemoveAt(txq, i)
    /\ loading' = IF outcome = "error" /\ hides THEN FALSE ELSE loading
    /\ Completed([e EXCEPT !.out = outcome, !.ok = FALSE,
                           !.toasts = IF outcome = "error" THEN <<errToast>>
                                      ELSE <<>>])
    /\ UNCHANGED <<isIOS, opened, db, fallbackMode, stockData, salesData, dbStock,
                   dbSales, salesKeyGen, lsDoc, clock, watch, ops>>

\* addShipment: the transaction on 'stock'
ShipmentTx(i, outcome) ==
    LET t == txq[i]
        e == [Applied("addShipment", t.name, <<>>, "complete") EXCEPT
                 !.qty = t.qty, !.cost = t.cost, !.sell = t.sell,
                 !.pre = QtyOf(dbStock, t.name)]
    IN  /\ t.kind = "addShipment"
        /\ Runnable(i)
        /\ IF outcome = "complete"
           THEN /\ dbStock' = DbUpsert(dbStock, t.name, t.qty, t.cost, t.sell)
                /\ txq' = RemoveAt(txq, i) \o Loads(<<"loadStock">>)
                /\ loading' = FALSE
                /\ Completed([e EXCEPT
                       !.toasts = <<"Shipment added successfully!">>])
                /\ UNCHANGED <<isIOS, opened, db, fallbackMode, stockData,
                               salesData, dbSales, salesKeyGen, lsDoc, clock, fails, watch, ops>>
           ELSE TxFailed(i, outcome, e, "Error adding shipment", TRUE)

\* deleteItem: the transaction on 'stock'
DeleteItemTx(i, outcome) ==
    LET t == txq[i]
        e == [Applied("deleteItem", t.name, <<>>, "complete") EXCEPT
                 !.pre = QtyOf(dbStock, t.name)]
    IN  /\ t.kind = "deleteItem"
        /\ Runnable(i)
        /\ IF outcome = "complete"
           THEN /\ dbStock' = StoreDelete(dbStock, t.name)
                /\ txq' = RemoveAt(txq, i) \o Loads(<<"loadStock">>)
                /\ loading' = FALSE
                /\ Completed([e EXCEPT !.toasts = <<"Item deleted">>])
                /\ UNCHANGED <<isIOS, opened, db, fallbackMode, stockData,
                               salesData, dbSales, salesKeyGen, lsDoc, clock, fails, watch, ops>>
           ELSE TxFailed(i, outcome, e, "Error deleting item", TRUE)

\* addSale: the transaction on 'stock' and 'sales'
SaleTx(i, outcome) ==
    LET t == txq[i]
        e == [Applied("addSale", t.sale.name, <<>>, "complete") EXCEPT
                 !.qty = t.sale.qty, !.sell = t.sale.sellPrice,
                 \* the quantity addSale read from stockData
                 !.pre = t.item.qty + t.sale.qty,
                 !.t = NewDate(t.sale.date)]
    IN  /\ t.kind = "addSale"
        /\ Runnable(i)
        /\ IF outcome = "complete"
           THEN /\ dbStock' = StorePut(dbStock, t.item)
                /\ dbSales' = Append(dbSales, [key |-> salesKeyGen,
                                               value |-> t.sale])
                /\ salesKeyGen' = salesKeyGen + 1
                /\ txq' = RemoveAt(txq, i) \o Loads(<<"loadStock", "loadSales">>)
                /\ loading' = FALSE
                /\ Completed([e EXCEPT !.toasts = <<"Sale recorded!">>,
                                       !.key = salesKeyGen])
                /\ UNCHANGED <<isIOS, opened, db, fallbackMode, stockData,
                               salesData, lsDoc, clock, fails, watch, ops>>
           ELSE TxFailed(i, outcome, e, "Error recording sale", TRUE)

\* getItem.onsuccess: put the item back with the quantity restored
DbGiveBack(store, sale) ==
    IF StoreHas(store, sale.name)
    THEN StorePut(store, [StoreGet(store, sale.name) EXCEPT !.qty = @ + sale.qty])
    ELSE store

\* deleteSale: the transaction on 'sales' and 'stock'
UndoTx(i, outcome) ==
    LET t == txq[i]
        k == SalesKeyIndex(dbSales, t.id)
        e == [Applied("deleteSale", "", <<>>, "complete") EXCEPT !.id = t.id]
    IN  /\ t.kind = "deleteSale"
        /\ Runnable(i)
        /\ IF k = 0
           THEN \* getSale.onsuccess returns early; the transaction, with
                \* nothing to write, completes and tx.oncomplete runs
                /\ outcome = "complete"
                /\ txq' = RemoveAt(txq, i) \o Loads(<<"loadStock", "loadSales">>)
                /\ loading' = FALSE
                /\ Completed([e EXCEPT
                       !.ok = FALSE,
                       !.toasts = <<"Sale not found", "Sale undone!">>])
                /\ UNCHANGED <<isIOS, opened, db, fallbackMode, stockData,
                               salesData, dbStock, dbSales, salesKeyGen, lsDoc,
                               clock, fails, watch, ops>>
           ELSE LET sale == dbSales[k].value
                    f == [e EXCEPT !.name = sale.name, !.qty = sale.qty,
                                   !.t = NewDate(sale.date),
                                   !.pre = QtyOf(dbStock, sale.name)]
                IN  IF outcome = "complete"
                    THEN /\ dbStock' = DbGiveBack(dbStock, sale)
                         /\ dbSales' = RemoveAt(dbSales, k)
                         /\ txq' = RemoveAt(txq, i)
                                   \o Loads(<<"loadStock", "loadSales">>)
                         /\ loading' = FALSE
                         /\ Completed([f EXCEPT !.toasts = <<"Sale undone!">>])
                         /\ UNCHANGED <<isIOS, opened, db, fallbackMode,
                                        stockData, salesData, salesKeyGen, lsDoc,
                                        clock, fails, watch, ops>>
                    ELSE TxFailed(i, outcome, f, "Error undoing sale", TRUE)

\* importCSVData: the transaction on 'stock'
CsvTx(i, outcome) ==
    LET t == txq[i]
        e == [Applied("importCSVData", "", <<>>, "complete") EXCEPT
                 !.qty = t.imported, !.key = t.skipped]
    IN  /\ t.kind = "importCSVData"
        /\ Runnable(i)
        /\ IF outcome = "complete"
           THEN /\ dbStock' = CsvMergeDb(dbStock, dbStock, t.importData)
                /\ txq' = RemoveAt(txq, i) \o Loads(<<"loadStock">>)
                /\ Completed([e EXCEPT
                       !.toasts = <<"Imported N items (M skipped)">>])
                /\ UNCHANGED <<isIOS, opened, db, fallbackMode, stockData,
                               salesData, dbSales, salesKeyGen, lsDoc, clock,
                               loading, fails, watch, ops>>
           ELSE TxFailed(i, outcome, e, "Import failed", FALSE)

\* importJSONData: the transaction on 'stock' and 'sales'
JsonTx(i, outcome) ==
    LET t == txq[i]
        e == [Applied("importJSONData", "", <<>>, "complete") EXCEPT
                 !.doc = t.doc]
    IN  /\ t.kind = "importJSONData"
        /\ Runnable(i)
        /\ IF t.thrown
           THEN \* clear, clear and the puts before the throw; tx.oncomplete and
                \* tx.onerror were never set; the catch has shown its toast
                LET f == [e EXCEPT !.ok = FALSE, !.out = outcome,
                                   !.toasts = <<"Import failed: DataError">>]
                IN  /\ outcome \in {"complete", "abort"}
                    /\ txq' = RemoveAt(txq, i)
                    /\ Completed(f)
                    /\ IF outcome = "complete"
                       THEN /\ dbStock' = PutAll(<<>>,
                                   SubSeq(t.doc.stock, 1,
                                          ThrowsAt(t.doc.stock) - 1))
                            /\ dbSales' = <<>>
                            /\ fails' = fails
                       ELSE /\ fails < MaxFails
                            /\ fails' = fails + 1
                            /\ UNCHANGED <<dbStock, dbSales>>
                    /\ UNCHANGED <<isIOS, opened, db, fallbackMode, stockData,
                                   salesData, salesKeyGen, lsDoc, clock,
                                   loading, watch, ops>>
           ELSE IF outcome = "complete"
           THEN /\ dbStock' = PutAll(<<>>, t.doc.stock)
                /\ dbSales' = AddAll(<<>>, SalesOf(t.doc), salesKeyGen)
                /\ salesKeyGen' = salesKeyGen + Len(SalesOf(t.doc))
                /\ txq' = RemoveAt(txq, i) \o Loads(<<"loadStock", "loadSales">>)
                /\ Completed([e EXCEPT
                       !.toasts = <<"Data imported successfully!">>])
                /\ UNCHANGED <<isIOS, opened, db, fallbackMode, stockData,
                               salesData, lsDoc, clock, loading, fails, watch, ops>>
           ELSE TxFailed(i, outcome, e, "Import failed", FALSE)

\* ------------------------------------------------------------- Next
\* every step but those of the backup import
Ledgering ==
    \/ OpenSuccess
    \/ OpenError
    \/ \E form \in ShipmentForms, c \in BOOLEAN : addShipment(form, c)
    \/ \E n \in Names, c \in BOOLEAN : deleteItem(n, c)
    \/ \E st \in Staff, form \in SaleForms : addSale(st, form)
    \/ \E id \in SaleIds, c \in BOOLEAN : deleteSale(id, c)
    \/ \E rows \in CsvFiles : importCSVData(rows)
    \/ \E i \in 1 .. Len(txq) : LoadStockDone(i)
    \/ \E i \in 1 .. Len(txq) : LoadSalesDone(i)
    \/ \E i \in 1 .. Len(txq), o \in TxOutcomes : ShipmentTx(i, o)
    \/ \E i \in 1 .. Len(txq), o \in TxOutcomes : DeleteItemTx(i, o)
    \/ \E i \in 1 .. Len(txq), o \in TxOutcomes : SaleTx(i, o)
    \/ \E i \in 1 .. Len(txq), o \in TxOutcomes : UndoTx(i, o)
    \/ \E i \in 1 .. Len(txq), o \in TxOutcomes : CsvTx(i, o)

Next ==
    \/ Ledgering
    \/ \E data \in FileDocs \cup {backupData} : importJSONData(data)
    \/ \E i \in 1 .. Len(txq), o \in TxOutcomes : JsonTx(i, o)

Spec == Init /\ [][Next]_vars

\* the same program with the refusals of the sale form and of the backup
\* import recorded in the history
InitRefusals ==
    Start /\ watch = {"Only N available in stock",
                      "Invalid JSON: Missing stock data"}
SpecRefusals == InitRefusals /\ [][Next]_vars

\* the program used without the backup import
SpecNoBackup == Init /\ [][Ledgering]_vars

\* the callbacks of IndexedDB: the result of a load, the end of a
\* read-write transaction (complete, error or abort)
Callbacks ==
    \E i \in 1 .. Len(txq) :
        \/ LoadStockDone(i)
        \/ LoadSalesDone(i)
        \/ \E o \in TxOutcomes :
              \/ ShipmentTx(i, o)
              \/ DeleteItemTx(i, o)
              \/ SaleTx(i, o)
              \/ UndoTx(i, o)
              \/ CsvTx(i, o)

\* the program without the backup import, every pending callback being
\* delivered in the end; when the user acts is left open
SpecFair == Init /\ [][Ledgering]_vars /\ WF_vars(Callbacks)

\* the program used with shipments, delimited imports, sales and undos alone
Conserving ==
    \/ OpenSuccess
    \/ OpenError
    \/ \E form \in ShipmentForms, c \in BOOLEAN : addShipment(form, c)
    \/ \E st \in Staff, form \in SaleForms : addSale(st, form)
    \/ \E id \in SaleIds, c \in BOOLEAN : deleteSale(id, c)
    \/ \E rows \in CsvFiles : importCSVData(rows)
    \/ \E i \in 1 .. Len(txq) : LoadStockDone(i)
    \/ \E i \in 1 .. Len(txq) : LoadSalesDone(i)
    \/ \E i \in 1 .. Len(txq), o \in TxOutcomes : ShipmentTx(i, o)
    \/ \E i \in 1 .. Len(txq), o \in TxOutcomes : SaleTx(i, o)
    \/ \E i \in 1 .. Len(txq), o \in TxOutcomes : UndoTx(i, o)
    \/ \E i \in 1 .. Len(txq), o \in TxOutcomes : CsvTx(i, o)

SpecConserving == Init /\ [][Conserving]_vars

\* the same, with the refusal of a sale of an item that is not in stock
\* recorded in the history
InitSaleRefusals == Start /\ watch = {"Item not found in stock"}
SpecSaleRefusals == InitSaleRefusals /\ [][Ledgering]_vars

\* ============================================================ properties
\* the ledgers of record: the in-memory lists in fallback mode, the object
\* stores otherwise
StockLedger == IF fallbackMode THEN stockData ELSE dbStock
SalesLedger == IF fallbackMode THEN salesData ELSE SalesValues(dbSales)

ShowsToast(e, msg) == \E i \in 1 .. Len(e.toasts) : e.toasts[i] = msg
ItemsNamed(stock, n) == {i \in 1 .. Len(stock) : stock[i].name = n}
NamesUnique(stock) ==
    \A i, j \in 1 .. Len(stock) : stock[i].name = stock[j].name => i = j
\* every item but n is the same in both lists
OthersUnchanged(old, new, n) ==
    \A m \in Names \ {n} :
        /\ Has(old, m) <=> Has(new, m)
        /\ Has(old, m) => old[FindIndex(old, m)] = new[FindIndex(new, m)]
\* two sale records that every reader, which takes new Date(sale.date), sees
\* as the same
SameSale(a, b) ==
    [a EXCEPT !.date = NewDate(a.date)] = [b EXCEPT !.date = NewDate(b.date)]
SameSales(s, t) ==
    Len(s) = Len(t) /\ \A i \in 1 .. Len(s) : SameSale(s[i], t[i])

\* ------------------------------------------------------------------ C1
\* a well-formed sale form that asks for more than stockData holds of the item
Oversell(form) ==
    /\ form[1] # ""
    /\ IsNumeric(form[2]) /\ NumberOf(form[2]) > 0
    /\ IsNumeric(form[3]) /\ NumberOf(form[3]) > 0
    /\ Has(stockData, form[1])
    /\ NumberOf(form[2]) > QtyOf(stockData, form[1])

\* C1: in both backends, addSale for an item whose quantity is Q with a
\* requested quantity greater than Q is rejected ("Only Q available in
\* stock"): no transaction is created and the stock and sales ledgers, in
\* memory and persisted, are as they were, so the quantity is still Q.
C1_OversellRejected ==
    [][\A st \in Staff, form \in SaleForms :
          (/\ Oversell(form)
           /\ ~UNCHANGED <<stockData, salesData, dbStock, dbSales,
                           salesKeyGen, lsDoc, txq, clock, ev>>
           /\ addSale(st, form)) =>
              /\ UNCHANGED <<stockData, salesData, dbStock, dbSales,
                             salesKeyGen, lsDoc, txq, clock>>
              /\ \/ UNCHANGED ev
                 \/ /\ ev'.op = "addSale"
                    /\ ~ev'.ok
                    /\ ev'.toasts = <<"Only N available in stock">>]_vars

C1_OversellSeen ==
    /\ ev.op = "addSale"
    /\ ev.toasts = <<"Only N available in stock">>
    /\ \E n \in Names : Has(StockLedger, n) /\ QtyOf(StockLedger, n) > 0
    /\ SalesLedger # <<>>

\* ------------------------------------------------------------------ C2
QtysNatural(stock) == \A i \in 1 .. Len(stock) : stock[i].qty \in Nat
Lowered(old, new, n) ==
    Has(old, n) /\ Has(new, n) /\ QtyOf(new, n) < QtyOf(old, n)

\* C2: without backup imports, from empty ledgers, every qty (in memory, in
\* the store, in the saved document) is a natural number; a step that lowers
\* the qty of an item that stays in the ledger is a sale of that item: in
\* fallback mode it appends the sale record and takes the sold quantity, in
\* the store it is the sale's transaction, and the in-memory list of the
\* IndexedDB mode is lowered only by recording a sale or by a reload that
\* shows the store.
C2_QtyNeverNegative ==
    /\ [](QtysNatural(stockData) /\ QtysNatural(dbStock)
            /\ QtysNatural(lsDoc.stock))
    /\ [][\A n \in Names :
            /\ (fallbackMode /\ Lowered(stockData, stockData', n)) =>
                   /\ Len(salesData') = Len(salesData) + 1
                   /\ salesData'[Len(salesData')].name = n
                   /\ QtyOf(stockData', n) =
                          QtyOf(stockData, n) - salesData'[Len(salesData')].qty
            /\ Lowered(dbStock, dbStock', n) =>
                   /\ Len(dbSales') = Len(dbSales) + 1
                   /\ dbSales'[Len(dbSales')].value.name = n
            /\ (~fallbackMode /\ Lowered(stockData, stockData', n)) =>
                   \/ /\ Len(txq') = Len(txq) + 1
                      /\ txq'[Len(txq')].kind = "addSale"
                      /\ txq'[Len(txq')].sale.name = n
                   \/ stockData' = dbStock]_vars

C2_SoldOut ==
    /\ ev.op = "addSale"
    /\ ev.ok
    /\ pev.op = "addShipment"
    /\ Has(StockLedger, ev.name)
    /\ QtyOf(StockLedger, ev.name) = 0

\* ------------------------------------------------------------------ C3
SaleJustDone == ev.op = "addSale" /\ ev.ok

\* the step that completes a sale appends its record, under the identifier
\* ev'.key, and leaves ev'.pre - ev'.qty of the item (L, S: the sales and
\* stock ledgers of record, before and after)
SaleAppends(L, L2, S2) ==
    /\ Len(L2) = Len(L) + 1
    /\ SubSeq(L2, 1, Len(L)) = L
    /\ QtyOf(S2, ev'.name) = ev'.pre - ev'.qty
    /\ IF fallbackMode THEN ev'.key = Len(L) ELSE L2[Len(L2)].key = ev'.key

\* the step that undoes the sale just done removes that record, the last,
\* and gives the item its quantity of before the sale
UndoRestores(L, L2, S, S2) ==
    /\ L # <<>>
    /\ L2 = SubSeq(L, 1, Len(L) - 1)
    /\ LET rec == IF fallbackMode THEN L[Len(L)] ELSE L[Len(L)].value
       IN  /\ rec.name = ev.name
           /\ rec.qty = ev.qty
           /\ NewDate(rec.date) = ev.t
    /\ ~fallbackMode => L[Len(L)].key = ev.key
    /\ QtyOf(S2, ev.name) = ev.pre
    /\ OthersUnchanged(S, S2, ev.name)

\* C3: in both backends, a sale that succeeded and is followed, with no other
\* operation between, by deleteSale on that sale's identifier: the sale
\* appended one record; nothing changed the ledgers in between; the undo
\* removes exactly that record, so the sales ledger is what it was before the
\* sale, and the item's quantity is again what the sale found.
C3_UndoRestoresSale ==
    [][/\ (ev' # ev /\ ev'.op = "addSale" /\ ev'.ok) =>
              IF fallbackMode
              THEN SaleAppends(salesData, salesData', stockData')
              ELSE SaleAppends(dbSales, dbSales', dbStock')
       /\ (SaleJustDone /\ ev' = ev) =>
              IF fallbackMode
              THEN UNCHANGED <<stockData, salesData>>
              ELSE UNCHANGED <<dbStock, dbSales>>
       /\ (SaleJustDone /\ ev'.op = "deleteSale" /\ ev'.ok
             /\ ev'.id = ev.key) =>
              IF fallbackMode
              THEN UndoRestores(salesData, salesData', stockData, stockData')
              ELSE UndoRestores(dbSales, dbSales', dbStock, dbStock')]_vars

C3_SaleUndone ==
    /\ db
    /\ ev.op = "deleteSale" /\ ev.ok
    /\ pev.op = "addSale" /\ pev.ok
    /\ ev.id = pev.key
    /\ QtyOf(dbStock, ev.name) = pev.pre
    /\ dbSales # <<>>

\* ------------------------------------------------------------------ C4
\* C4 (as the specification states it): in both backends, once deleteSale(id)
\* has succeeded, the next deleteSale with the same id finds no sale, says so,
\* and changes neither ledger, whatever other records remain.
C4_SecondUndoNotFound ==
    [][(ev.op = "deleteSale" /\ ev.ok /\ ev' # ev
          /\ ev'.op = "deleteSale" /\ ev'.id = ev.id) =>
           /\ ~ev'.ok
           /\ ShowsToast(ev', "Sale not found")
           /\ UNCHANGED <<stockData, salesData, dbStock, dbSales>>]_vars

\* the second undo with the same id has removed another sale
C4_SecondUndoRemovedAnother ==
    /\ fallbackMode
    /\ ev.op = "deleteSale" /\ ev.ok
    /\ pev.op = "deleteSale" /\ pev.ok
    /\ ev.id = pev.id
    /\ ev.name # pev.name

\* ------------------------------------------------------------------ C5
\* C5 (as the specification states it): when the transaction of addSale
\* fails, the stores are as before, the in-memory quantity of the item is the
\* one the sale found, and no record of the sale is in either ledger.
C5_FailedSaleLeavesNoTrace ==
    [][(ev' # ev /\ ev'.op = "addSale" /\ ev'.out \in {"error", "abort"}) =>
           /\ UNCHANGED <<dbStock, dbSales>>
           /\ QtyOf(stockData', ev'.name) = ev'.pre
           /\ \A i \in 1 .. Len(salesData') :
                  NewDate(salesData'[i].date) # ev'.t]_vars

\* the sale has failed and stockData shows less than the store
C5_MemoryKeepsDecrement ==
    /\ ev.op = "addSale" /\ ev.out = "error"
    /\ txq = <<>>
    /\ QtyOf(dbStock, ev.name) = ev.pre
    /\ QtyOf(stockData, ev.name) = ev.pre - ev.qty

\* ------------------------------------------------------------------ C6
\* C6: in either backend, after two shipments of the same name one after the
\* other the item of that name, the one the shipments were merged into, has
\* the quantity the first found (none: 0) plus both shipments' quantities
\* and the cost and sell of the second; after a shipment of a name the
\* ledger did not have, it has exactly one item of that name with the
\* shipment's values.
C6_ShipmentsAccumulate ==
    /\ (ev.op = "addShipment" /\ ev.ok /\ pev.op = "addShipment" /\ pev.ok
          /\ pev.name = ev.name) =>
           /\ Has(StockLedger, ev.name)
           /\ LET item == StockLedger[FindIndex(StockLedger, ev.name)]
              IN  /\ item.qty = Max(pev.pre, 0) + pev.qty + ev.qty
                  /\ item.cost = ev.cost
                  /\ item.sell = ev.sell
    /\ (ev.op = "addShipment" /\ ev.ok /\ ev.pre = -1) =>
           /\ Cardinality(ItemsNamed(StockLedger, ev.name)) = 1
           /\ StockLedger[FindIndex(StockLedger, ev.name)] =
                  StockItem(ev.name, ev.qty, ev.cost, ev.sell)

C6_TwoShipments ==
    /\ db
    /\ ev.op = "addShipment" /\ ev.ok
    /\ pev.op = "addShipment" /\ pev.ok
    /\ pev.name = ev.name
    /\ pev.pre = 1
    /\ ev.cost = 2

\* ------------------------------------------------------------------ C7
\* C7 (as the specification states it): in IndexedDB mode, with the lists
\* loaded, the identifier the sales table gives to the Undo button of a row
\* is the key under which that row's sale is stored.
C7_ShownIdIsStoredKey ==
    (db /\ txq = <<>> /\ salesData = SalesValues(dbSales)) =>
        \A index \in 0 .. (Len(salesData) - 1) :
            SaleIdShown(salesData, index) = dbSales[Len(salesData) - index].key

\* a stored sale is shown with the identifier 1 and no sale has the key 1
C7_ShownIdMatchesNoSale ==
    /\ db
    /\ txq = <<>>
    /\ salesData = SalesValues(dbSales)
    /\ Len(salesData) = 1
    /\ SaleIdShown(salesData, 0) = 1
    /\ SalesKeyIndex(dbSales, 1) = 0

\* ------------------------------------------------------------------ C8
\* C8: importing the document that backupData makes of the current lists
\* gives back those lists: in fallback mode stockData is the same and
\* salesData has the same records (a Date having become its ISO string, which
\* every reader passes to new Date); in IndexedDB mode the transaction carries
\* that document and, completing, leaves exactly its stock and sales in the
\* stores.
C8_BackupRoundTrip ==
    [][/\ (fallbackMode /\ importJSONData(backupData)) =>
              /\ stockData' = stockData
              /\ SameSales(salesData', salesData)
       /\ (db /\ importJSONData(backupData)) =>
              /\ Len(txq') = Len(txq) + 1
              /\ txq'[Len(txq')].doc.stock = stockData
              /\ SameSales(txq'[Len(txq')].doc.sales, salesData)
       /\ \A i \in 1 .. Len(txq) :
              (/\ txq[i].kind = "importJSONData"
               /\ txq[i].doc.tag = "backup"
               /\ JsonTx(i, "complete")) =>
                  /\ dbStock' = txq[i].doc.stock
                  /\ SalesValues(dbSales') = txq[i].doc.sales]_vars

C8_BackupRestored ==
    /\ db
    /\ ev.op = "importJSONData" /\ ev.ok
    /\ ev.doc.tag = "backup"
    /\ Len(ev.doc.stock) = 2
    /\ ev.doc.sales # <<>>
    /\ txq = <<>>

\* ------------------------------------------------------------------ C9
\* data.sales || [], written out independently of SalesOf
DocSales(d) == IF d.hasSales THEN d.sales ELSE <<>>
SameItems(a, b) ==
    /\ Len(a) = Len(b)
    /\ {a[i] : i \in 1 .. Len(a)} = {b[i] : i \in 1 .. Len(b)}

C10_InvalidBackupRefused ==
    [][\A data \in FileDocs :
          (data.stockKind # "array" /\ importJSONData(data)) =>
              /\ UNCHANGED <<stockData, salesData, dbStock, dbSales,
                             salesKeyGen, lsDoc, txq>>
              /\ \/ UNCHANGED ev
                 \/ /\ ev'.op = "importJSONData"
                    /\ ~ev'.ok
                    /\ ev'.toasts = <<"Invalid JSON: Missing stock data">>]_vars

C10_InvalidBackupSeen ==
    /\ ev.op = "importJSONData"
    /\ ~ev.ok
    /\ ev.doc.stockKind = "object"
    /\ ev.toasts = <<"Invalid JSON: Missing stock data">>
    /\ StockLedger # <<>>
    /\ SalesLedger # <<>>

\* ----------------------------------------------------------------- C11
\* C11 (as the specification states it): in IndexedDB mode, a backup import
\* that ends without success, whatever write of it failed, leaves the 'stock'
\* and 'sales' stores exactly as they were before it.
C11_FailedImportRollsBack ==
    [][(ev' # ev /\ ev'.op = "importJSONData" /\ ~ev'.ok
          /\ ev'.out # "sync") =>
           UNCHANGED <<dbStock, dbSales>>]_vars

\* the import has failed, the stores hold the one item put before the throw
\* and no sale, and the lists in memory still show the ledgers of before
C11_StoresPartlyFilled ==
    /\ db
    /\ ev.op = "importJSONData" /\ ~ev.ok
    /\ ev.doc.tag = "namelessItem"
    /\ dbStock = <<StockItem("Nails", 2, 2, 3)>>
    /\ dbSales = <<>>
    /\ Len(salesData) = 2
    /\ Has(stockData, "Cement")

\* ----------------------------------------------------------------- C12
\* a data row as the import accepts it, written out cell by cell: four cells,
\* a name, a whole quantity above 0, a cost above 0, a numeric selling price
WellFormedRow(r) ==
    /\ Len(r) >= 4
    /\ r[1] # ""
    /\ IsNumeric(r[2]) /\ NumberOf(r[2]) > 0
    /\ IsNumeric(r[3]) /\ NumberOf(r[3]) > 0
    /\ IsNumeric(r[4])
WellFormedRows(rows) == {i \in 1 .. Len(rows) : WellFormedRow(rows[i])}
RowNames(rows) == {rows[i][1] : i \in WellFormedRows(rows)}
\* the ledger changed by the well-formed rows only: every item they name is
\* there afterwards, every other item is as it was
ChangedByRowsOnly(old, new, rows) ==
    /\ \A n \in RowNames(rows) : Has(new, n)
    /\ \A m \in Names \ RowNames(rows) :
          /\ Has(old, m) <=> Has(new, m)
          /\ Has(old, m) => old[FindIndex(old, m)] = new[FindIndex(new, m)]

C13_TwoRowsOneNameAddUp ==
    [][(ev' # ev /\ ev'.op = "importCSVData" /\ ev'.ok /\ ev'.qty = 2) =>
           LET prior == IF Has(StockLedger, "Cement")
                        THEN QtyOf(StockLedger, "Cement") ELSE 0
           IN  /\ Has(StockLedger', "Cement")
               /\ StockLedger'[FindIndex(StockLedger', "Cement")] =
                      StockItem("Cement", prior + 2, 2, 3)]_vars

\* the first operation of an IndexedDB session was the import of two rows of
\* one Cement each: the store holds one Cement, not two
C13_OneRowLost ==
    /\ db /\ ops = 1
    /\ ev.op = "importCSVData" /\ ev.ok /\ ev.qty = 2
    /\ QtyOf(dbStock, "Cement") = 1

\* ----------------------------------------------------------------- C14
\* C14 (as the specification states it): once the opening of the database
\* has failed, on whatever platform, the session is in fallback mode.
C14_OpenFailureStartsFallback ==
    (opened /\ ~db) => fallbackMode

\* the opening has failed on a platform that is not iOS: no database handle
\* and no fallback mode
C14_NoBackendAtAll ==
    /\ ~isIOS
    /\ opened /\ ~db /\ ~fallbackMode
    /\ stockData = <<>> /\ salesData = <<>>

\* ----------------------------------------------------------------- C15
\* C15: the backend chosen at start-up stays: fallback mode, once on, stays
\* on; once the database handle is set it stays set and fallback mode stays
\* off; and no step after the opening of the database was answered, so no
\* shipment, deletion, sale, undo or import, changes either.
C15_BackendPermanent ==
    [][/\ fallbackMode => fallbackMode'
       /\ db => (db' /\ ~fallbackMode')
       /\ opened => UNCHANGED <<db, fallbackMode>>]_vars

\* in fallback mode, a backup import has been applied after a sale
C15_FallbackAfterImport ==
    /\ fallbackMode /\ ~db
    /\ ev.op = "importJSONData" /\ ev.ok
    /\ pev.op = "addSale"

\* ----------------------------------------------------------------- C16
\* C16 (as the specification states it): in either backend, an undo whose id
\* matches no sale record shows 'Sale not found', shows no success message,
\* and leaves the stock ledger and the sales ledger as they were.
C16_UnknownIdNotFound ==
    [][(/\ ev' # ev
        /\ ev'.op = "deleteSale"
        /\ IF fallbackMode THEN FindSaleIndex(salesData, ev'.id) = 0
                           ELSE SalesKeyIndex(dbSales, ev'.id) = 0) =>
           /\ ShowsToast(ev', "Sale not found")
           /\ ~ShowsToast(ev', "Sale undone!")
           /\ UNCHANGED <<stockData, salesData, dbStock, dbSales>>]_vars

\* in IndexedDB mode an undo found no record under its id and nevertheless
\* ended with the success message
C16_NotFoundThenUndone ==
    /\ db
    /\ ev.op = "deleteSale" /\ ~ev.ok
    /\ ev.toasts = <<"Sale not found", "Sale undone!">>
    /\ SalesKeyIndex(dbSales, ev.id) = 0

\* ----------------------------------------------------------------- C17
\* C17: in either backend, the undo of a sale whose item is no longer in the
\* stock ledger succeeds: the one sale record is removed, the stock ledger
\* is as it was (no item created, none changed), and the only message is
\* that of success.
C17_UndoAfterItemDeleted ==
    [][(/\ ev'.op = "deleteSale" /\ ev'.ok
        /\ ev' # ev \/ pev' # pev
        /\ ~Has(StockLedger, ev'.name)) =>
           /\ StockLedger' = StockLedger
           /\ \E k \in 1 .. Len(SalesLedger) :
                 /\ SalesLedger[k].name = ev'.name
                 /\ SalesLedger[k].qty = ev'.qty
                 /\ SalesLedger' = RemoveAt(SalesLedger, k)
           /\ ev'.toasts = <<"Sale undone!">>]_vars

\* in IndexedDB mode the sale of an item that was deleted from the store has
\* been undone
C17_OrphanSaleUndone ==
    /\ db
    /\ ev.op = "deleteSale" /\ ev.ok /\ ev.out = "complete"
    /\ ev.pre = -1
    /\ ~StoreHas(dbStock, ev.name)

\* ----------------------------------------------------------------- C18
\* C18 (as the specification states it): in every reachable state, in either
\* backend, no two items of the stock ledger have the same name.
C18_ItemNamesUnique ==
    NamesUnique(StockLedger)

\* in fallback mode the import of a backup that lists Cement twice has left
\* two Cement items in the stock ledger
C18_TwoItemsOfOneName ==
    /\ fallbackMode
    /\ ev.op = "importJSONData" /\ ev.ok /\ ev.doc.tag = "twoOfOneName"
    /\ Cardinality(ItemsNamed(stockData, "Cement")) = 2
    /\ lsDoc.stock = stockData

\* ----------------------------------------------------------------- C19
\* the items of the list new that the list old does not hold as they are
Written(old, new) ==
    {new[i] : i \in 1 .. Len(new)} \ {old[i] : i \in 1 .. Len(old)}

\* C19 (as the specification states it): in either backend, every stock item
\* that a shipment or a delimited import writes to the stock ledger has a
\* quantity, a cost and a selling price above 0.
C19_WrittenItemsPositive ==
    [][(/\ ev'.op \in {"addShipment", "importCSVData"} /\ ev'.ok
        /\ ev' # ev \/ pev' # pev) =>
           \A item \in Written(StockLedger, StockLedger') :
               item.qty > 0 /\ item.cost > 0 /\ item.sell > 0]_vars

\* a delimited import has stored an item with selling price 0
C19_SellZeroStored ==
    /\ ev.op = "importCSVData" /\ ev.ok
    /\ Has(StockLedger, "Nails")
    /\ StockLedger[FindIndex(StockLedger, "Nails")].sell = 0
    /\ StockLedger[FindIndex(StockLedger, "Nails")].qty > 0

\* ----------------------------------------------------------------- C20
\* a sale form with no item selected, a quantity or a selling price that is
\* not a number or not above 0, or an item that stockData does not hold
IllFormedSale(form) ==
    \/ form[1] = ""
    \/ ~IsNumeric(form[2]) \/ NumberOf(form[2]) <= 0
    \/ ~IsNumeric(form[3]) \/ NumberOf(form[3]) <= 0
    \/ ~Has(stockData, form[1])

\* C20: in both backends, addSale with such a form is rejected before any
\* write: no transaction is created, the stock and sales ledgers, in memory
\* and persisted, are as they were, and what is reported, if anything, is a
\* refusal.
C20_IllFormedSaleRejected ==
    [][\A st \in Staff, form \in SaleForms :
          (/\ IllFormedSale(form)
           /\ ~UNCHANGED <<stockData, salesData, dbStock, dbSales,
                           salesKeyGen, lsDoc, txq, clock, ev>>
           /\ addSale(st, form)) =>
              /\ UNCHANGED <<stockData, salesData, dbStock, dbSales,
                             salesKeyGen, lsDoc, txq, clock>>
              /\ \/ UNCHANGED ev
                 \/ /\ ev'.op = "addSale"
                    /\ ~ev'.ok
                    /\ ev'.toasts # <<>>]_vars

\* in IndexedDB mode a sale of an item that is not in stock has been refused
\* while the ledgers hold another item and a sale
C20_UnknownItemRefused ==
    /\ db
    /\ ev.op = "addSale" /\ ~ev.ok
    /\ ev.toasts = <<"Item not found in stock">>
    /\ stockData # <<>> /\ dbStock # <<>>
    /\ dbSales # <<>>

\* ----------------------------------------------------------------- C21
\* the transactions of shipments, deletions, sales, undos and imports that
\* were created and have not ended
Writers(q) == {i \in 1 .. Len(q) : ~ReadOnly(q[i])}

\* C21 (as the specification states it): a shipment, deletion, sale, undo or
\* import is accepted only when no transaction of an earlier one is still
\* pending.
C21_NoOverlap ==
    [][Cardinality(Writers(txq')) > Cardinality(Writers(txq)) =>
           Writers(txq) = {}]_vars

\* a sale was accepted while the transaction of a delimited import, whose
\* listener had already hidden the overlay, was still pending
C21_SaleDuringImport ==
    /\ Len(txq) = 2
    /\ txq[1].kind = "importCSVData"
    /\ txq[2].kind = "addSale"
    /\ dbStock # <<>> /\ dbSales = <<>>

\* ----------------------------------------------------------------- C22
\* C22 (as the specification states it): in fallback mode, whenever the last
\* completed operation was reported as successful, the document in
\* localStorage holds the stock list and the sales list that are in memory.
C22_SavedDocIsMirror ==
    (fallbackMode /\ ev.ok) =>
        /\ lsDoc.saved
        /\ lsDoc.stock = stockData
        /\ SameSales(lsDoc.sales, salesData)

\* in fallback mode a sale was reported as recorded while setItem had thrown:
\* the saved document has neither the sale nor the lowered quantity
C22_SaleNotSaved ==
    /\ fallbackMode
    /\ ev.op = "addSale" /\ ev.ok /\ ev.toasts = <<"Sale recorded!">>
    /\ fails = 1
    /\ Len(lsDoc.sales) = Len(salesData) - 1
    /\ lsDoc.stock # stockData

\* ----------------------------------------------------------------- C23
\* an undo has just been applied in fallback mode
FallbackUndone ==
    /\ fallbackMode
    /\ ev'.op = "deleteSale" /\ ev'.ok
    /\ ev' # ev \/ pev' # pev

\* C23, amended: in fallback mode the identifier of a sale is its position in
\* salesData.  An undo removes the record at the position it is given; every
\* older record keeps its identifier, and the identifier of every newer
\* record then names the record after it, or none.  So the undo of an older
\* sale by the identifier it was given, after a newer one was undone, removes
\* that older sale; it is the undo of a newer sale after an older one that
\* meets another record or none.
C23_OlderIdsStay ==
    [][FallbackUndone =>
           LET j == ev'.id
           IN  /\ j >= 0 /\ j < Len(salesData)
               /\ salesData[j + 1].name = ev'.name
               /\ Len(salesData') = Len(salesData) - 1
               /\ \A i \in 0 .. (j - 1) : salesData'[i + 1] = salesData[i + 1]
               /\ \A i \in (j + 1) .. (Len(salesData) - 1) :
                     /\ salesData[i + 1] # salesData[i]
                     /\ salesData'[i] = salesData[i + 1]
                     /\ i < Len(salesData') =>
                            salesData'[i + 1] # salesData[i + 1]]_vars

\* the newer of two sales was undone, then the older by its identifier: the
\* older one is the record that went
C23_OlderUndoneAfterNewer ==
    /\ fallbackMode
    /\ pev.op = "deleteSale" /\ pev.ok /\ pev.id = 1
    /\ ev.op = "deleteSale" /\ ev.ok /\ ev.id = 0
    /\ ev.name # pev.name
    /\ salesData = <<>>

\* C23 (as the specification states it): in fallback mode, after a newer
\* sale has been undone, the undo of an older sale by the identifier it was
\* given removes a record other than the one that had that identifier.
C23_OlderUndoHitsAnother ==
    [][(/\ FallbackUndone
        /\ ev.op = "deleteSale" /\ ev.ok
        /\ ev'.id < ev.id) =>
           salesData' # RemoveAt(salesData, ev'.id + 1)]_vars

\* ----------------------------------------------------------------- C24
\* the items of a list that have another name than n, in their order
ItemsNotNamed(stock, n) == SelectSeq(stock, LAMBDA x : x.name # n)

\* C24: in either backend, a completed deletion of the item named n leaves
\* no item of that name in the stock ledger, leaves the items of every other
\* name as they were, and leaves every sale record, those of the name n
\* included, as it was.
C24_DeleteRemovesOnlyItem ==
    [][(/\ ev'.op = "deleteItem" /\ ev'.ok
        /\ ev' # ev \/ pev' # pev) =>
           /\ StockLedger' = ItemsNotNamed(StockLedger, ev'.name)
           /\ UNCHANGED <<salesData, dbSales>>]_vars

\* in IndexedDB mode an item was deleted: another item and the sale of the
\* deleted one are still there
C24_SaleOutlivesItem ==
    /\ db
    /\ ev.op = "deleteItem" /\ ev.ok /\ ev.out = "complete"
    /\ ev.pre > 0
    /\ dbStock # <<>>
    /\ \E k \in 1 .. Len(dbSales) : dbSales[k].value.name = ev.name

\* ----------------------------------------------------------------- C25
\* the sale records that addSale has made in this step: the one pushed to
\* salesData in fallback mode, the one handed to the transaction otherwise
SalesMade ==
    (IF fallbackMode /\ Len(salesData') = Len(salesData) + 1
     THEN {salesData'[Len(salesData')]} ELSE {})
    \cup (IF Len(txq') = Len(txq) + 1 /\ txq'[Len(txq')].kind = "addSale"
          THEN {txq'[Len(txq')].sale} ELSE {})

\* C25: without backup imports, every sale record is made with revenue =
\* qty * sellPrice and profit = qty * (sellPrice - cost), cost being the cost
\* of the item in stockData when the sale is made; the sales ledger then
\* only ever gains the record made or loses one record, so that no shipment,
\* delimited import, sale or undo changes a record that stays.
C25_SaleFiguresFixed ==
    [][/\ \A r \in SalesMade :
             /\ r.revenue = r.qty * r.sellPrice
             /\ r.profit = r.qty * (r.sellPrice - r.cost)
             /\ Has(stockData, r.name)
             /\ r.cost = stockData[FindIndex(stockData, r.name)].cost
       /\ \/ SalesLedger' = SalesLedger
          \/ /\ Len(SalesLedger') = Len(SalesLedger) + 1
             /\ SubSeq(SalesLedger', 1, Len(SalesLedger)) = SalesLedger
             /\ LET r == SalesLedger'[Len(SalesLedger')]
                IN  /\ r.revenue = r.qty * r.sellPrice
                    /\ r.profit = r.qty * (r.sellPrice - r.cost)
                    /\ fallbackMode \/ \E i \in 1 .. Len(txq) : 
                                          /\ txq[i].kind = "addSale"
                                          /\ txq[i].sale = r
          \/ \E k \in 1 .. Len(SalesLedger) :
                SalesLedger' = RemoveAt(SalesLedger, k)]_vars

\* a sale of an item at cost 1 is on record, unchanged, after a later
\* shipment has set the item's cost to 2
C25_CostKeptAfterShipment ==
    /\ ev.op = "addShipment" /\ ev.ok /\ ev.cost = 2
    /\ pev.op = "addSale" /\ pev.name = ev.name
    /\ \E k \in 1 .. Len(SalesLedger) :
          /\ SalesLedger[k].name = ev.name
          /\ SalesLedger[k].cost = 1
          /\ SalesLedger[k].profit = SalesLedger[k].qty * (3 - 1)
    /\ StockLedger[FindIndex(StockLedger, ev.name)].cost = 2

\* ----------------------------------------------------------------- C26
\* C26 (as the specification states it): under fair delivery of the
\* callbacks, whenever the transaction of a shipment, deletion, sale, undo or
\* import is pending, a state follows in which none is pending and the
\* loading overlay is hidden.
C26_OperationsEndAndClear ==
    (Writers(txq) # {}) ~> (Writers(txq) = {} /\ ~loading)

\* the transaction of a sale has aborted: nothing is pending, nothing was
\* reported, and the overlay is still shown
C26_OverlayLeftOn ==
    /\ db
    /\ txq = <<>>
    /\ loading
    /\ ev.op = "addSale" /\ ~ev.ok /\ ev.out = "abort" /\ ev.toasts = <<>>

\* ----------------------------------------------------------------- C27
RECURSIVE SumQty(_, _)
\* the total quantity of the records of a list that name n
SumQty(recs, n) ==
    IF recs = <<>> THEN 0
    ELSE (IF Head(recs).name = n THEN Head(recs).qty ELSE 0)
         + SumQty(Tail(recs), n)

\* what is in stock of n plus what the sales on record have taken of it
Balance(n) ==
    (IF Has(StockLedger, n) THEN QtyOf(StockLedger, n) ELSE 0)
    + SumQty(SalesLedger, n)

\* the quantity of n in the well-formed rows of a file
RowsQty(rows, n) ==
    SumQty([i \in 1 .. Len(rows) |->
               IF i \in WellFormedRows(rows)
               THEN [name |-> rows[i][1], qty |-> NumberOf(rows[i][2])]
               ELSE [name |-> "", qty |-> 0]], n)

\* C27 (as the specification states it): with shipments, delimited imports,
\* sales and undos alone, from empty ledgers, the quantity in stock of every
\* name is what was received of it less what the sales on record took.
\* Stated step by step: a completed shipment raises stock plus recorded sales
\* of its name by its quantity, a completed delimited import by the
\* quantities of its valid rows, and no other step changes it.
C27_StockConserved ==
    [][\A n \in Names :
          /\ (ev'.op = "addShipment" /\ ev'.ok /\ (ev' # ev \/ pev' # pev)) =>
                 Balance(n)' = Balance(n) + (IF ev'.name = n THEN ev'.qty ELSE 0)
          /\ \A rows \in CsvFiles :
                 (/\ fallbackMode /\ ops' = ops + 1
                  /\ ev'.op = "importCSVData" /\ ev'.ok
                  /\ importCSVData(rows)) =>
                     Balance(n)' = Balance(n) + RowsQty(rows, n)
          /\ \A i \in 1 .. Len(txq) :
                 (/\ ev'.op = "importCSVData" /\ ev'.ok
                  /\ CsvTx(i, "complete")) =>
                     Balance(n)' = Balance(n) + SumQty(txq[i].importData, n)
          /\ ~(/\ ev'.op \in {"addShipment", "importCSVData"} /\ ev'.ok
               /\ StockLedger' # StockLedger) =>
                 Balance(n)' = Balance(n)]_vars

\* in IndexedDB mode, after three operations of which the last two were a
\* shipment of an item and a sale of one of it, none is in stock: the sale
\* was taken from the list in memory, read before the shipment
C27_ShipmentLost ==
    /\ db /\ ops = 3
    /\ pev.op = "addShipment" /\ pev.qty = 1 /\ pev.pre = 1
    /\ ev.op = "addSale" /\ ev.ok /\ ev.name = pev.name /\ ev.qty = 1
    /\ QtyOf(dbStock, ev.name) = 0
    /\ SumQty(SalesLedger, ev.name) = 1

\* ----------------------------------------------------------------- C28
\* C28 (as the specification states it): in IndexedDB mode, with no failed
\* transaction before it, a recorded sale leaves in the 'stock' store the
\* item that was stored just before it with the quantity lowered by the
\* amount sold, every other item as it was, and no item that was not stored.
C28_SaleKeepsCommittedStock ==
    [][(/\ db /\ fails' = 0
        /\ ev'.op = "addSale" /\ ev'.ok
        /\ Len(dbSales') = Len(dbSales) + 1) =>
           IF StoreHas(dbStock, ev'.name)
           THEN dbStock' = StorePut(dbStock,
                               [StoreGet(dbStock, ev'.name) EXCEPT
                                   !.qty = @ - ev'.qty])
           ELSE dbStock' = dbStock]_vars

\* a shipment was committed and the sale recorded next, with no failure
\* before it, left less of the item in the store than the shipment left
\* less the amount sold
C28_SaleOverwroteShipment ==
    /\ db /\ fails = 0
    /\ pev.op = "addShipment" /\ pev.pre >= 0
    /\ ev.op = "addSale" /\ ev.ok /\ ev.name = pev.name
    /\ StoreHas(dbStock, ev.name)
    /\ QtyOf(dbStock, ev.name) < pev.pre + pev.qty - ev.qty

====
